---- MODULE Spec2Model ----
(***************************************************************************)
(* A model of migros_api: the construction/login sequence of MigrosApi,    *)
(* the paginated listing walk of get_all_receipts, the record extractor    *)
(* _parse_receipt_data and the ExceptionMigrosApi catalog.                 *)
(*                                                                         *)
(* Python values.  A str whose characters matter (codes, data-values,      *)
(* hrefs, cell texts, formatted dates) is a sequence of one-token strings; *)
(* a message is such a sequence of one or a few opaque tokens.  A Python   *)
(* value is None, PyInt(n), PyStr(s) or a datetime record.  A parsed page  *)
(* (BeautifulSoup) is the sequence of its elements in document order.  An  *)
(* exception is a record [type, code, msg].                                *)
(***************************************************************************)
EXTENDS Integers, Sequences, FiniteSets, TLC

VARIABLES
    pc,             \* where the single thread of control is
    trace,          \* requests, responses, sleeps, calls and raises, in order
    jar,            \* session.cookies: sequence of [name, value, domain]
    headers_cookie, \* self.headers['cookie'] (None until first set)
    exc,            \* the exception that reached the caller (None if none)
    period,         \* get_all_receipts: <<period_from_str, period_to_str>>
    current_page,   \* get_all_receipts: page cursor
    total_pages,    \* get_all_receipts: last value returned by extraction
    final_dict,     \* get_all_receipts: the accumulating result mapping
    response_list,  \* get_all_receipts: the list the responses are appended to
    returned,       \* the mapping returned to the caller (None if none)
    xpage,          \* extractor run: the response handed to extraction
    xdict,          \* extractor run: result_dict as it was before the call
    xout,           \* extractor run: outcome of _parse_receipt_data
    xcode,          \* catalog run: the code handed to ExceptionMigrosApi
    xmessage,       \* catalog run: the message handed to ExceptionMigrosApi
    xerr            \* catalog run: what the construction gave

vars == <<pc, trace, jar, headers_cookie, exc, period, current_page,
          total_pages, final_dict, response_list, returned, xpage, xdict, xout,
          xcode, xmessage, xerr>>

(***************************************************************************)
(* Bounds of the model.                                                    *)
(***************************************************************************)
MaxRows == 2        \* rows per listing page in extractor runs
MaxPag == 3         \* pagination anchors per listing page in extractor runs
MaxPages == 3       \* cap on the page cursor of one listing walk
MaxCode == 9        \* largest numeric code handed to the exception's constructor

(***************************************************************************)
(* Python values and small helpers.                                        *)
(***************************************************************************)
None == [ty |-> "NoneType"]
PyInt(n) == [ty |-> "int", v |-> n]
PyStr(s) == [ty |-> "str", v |-> s]
PyList(s) == [ty |-> "list", v |-> s]

\* bool(x) of a None-or-str value
Truthy(x) == x # None /\ x.v # <<>>

EmptyDict == [k \in {} |-> None]

\* d[k] = v on a dict
dict_set(d, k, v) == [x \in (DOMAIN d) \cup {k} |-> IF x = k THEN v ELSE d[x]]

\* d.get(k)
dict_get(d, k) == IF k \in DOMAIN d THEN d[k] ELSE None

Last(s) == s[Len(s)]

\* range(1, n+1) as the ascending sequence 1..n
Range1(n) == [i \in 1..n |-> i]

DecimalChars == <<"0", "1", "2", "3", "4", "5", "6", "7", "8", "9">>

\* Characters for which str.isnumeric() is true: the decimal digits and
\* numeric characters that are no decimal digits (superscript two here).
NumericOnlyChars == {"sup2"}

IsDecimalChar(c) == \E i \in 1..10 : DecimalChars[i] = c

DigitValue(c) == (CHOOSE i \in 1..10 : DecimalChars[i] = c) - 1

\* str(n) for a natural number n
RECURSIVE str_int(_)
str_int(n) ==
    IF n < 10 THEN <<DecimalChars[n + 1]>>
    ELSE str_int(n \div 10) \o <<DecimalChars[(n % 10) + 1]>>

\* str.zfill(width)
RECURSIVE zfill(_, _)
zfill(s, width) == IF Len(s) >= width THEN s ELSE zfill(<<"0">> \o s, width)

\* str.isnumeric(): non-empty and every character numeric
isnumeric(s) ==
    /\ Len(s) > 0
    /\ \A i \in 1..Len(s) : IsDecimalChar(s[i]) \/ s[i] \in NumericOnlyChars

\* int(s) is defined on non-empty strings of decimal digits only
IntParses(s) == Len(s) > 0 /\ \A i \in 1..Len(s) : IsDecimalChar(s[i])

RECURSIVE int_str(_)
int_str(s) ==
    IF Len(s) = 1 THEN DigitValue(s[1])
    ELSE 10 * int_str(SubSeq(s, 1, Len(s) - 1)) + DigitValue(s[Len(s)])

\* str.strip(): leading and trailing whitespace removed
RECURSIVE strip(_)
strip(s) ==
    IF s = <<>> THEN s
    ELSE IF Head(s) = " " THEN strip(Tail(s))
    ELSE IF Last(s) = " " THEN strip(SubSeq(s, 1, Len(s) - 1))
    ELSE s

(***************************************************************************)
(* exceptions_migros.py: the catalog and the exception's constructor.      *)
(***************************************************************************)
Exc(type, code, msg) == [type |-> type, code |-> code, msg |-> msg]

MsgAuth == PyStr(<<"Could not authenticate">>)
MsgUsername == PyStr(<<"Could not find username when authenticating">>)
MsgCumulus == PyStr(<<"Could not authenticate to cumulus">>)
MsgNotDates == PyStr(<<"period_from and period_to should be datetime objects">>)
\* The character U+0060 (backquote), which a TLA+ string cannot hold.
Backquote == "U+0060"
MsgRange ==
    PyStr(<<Backquote, "period_from", Backquote, " should be <= to ",
            Backquote, "period_to", Backquote>>)
MsgRequestPdf == PyStr(<<"Request again the item and indicate request_pdf=True">>)

CatalogMessages == <<MsgAuth, MsgUsername, MsgCumulus, MsgNotDates, MsgRange, MsgRequestPdf>>

\* The dict ERROR_CODES: every code is a key as an int and as a str.
ERROR_CODES ==
    [k \in {PyInt(n) : n \in 1..6} \cup {PyStr(str_int(n)) : n \in 1..6} |->
        CatalogMessages[IF k.ty = "int" THEN k.v ELSE int_str(k.v)]]

\* variant: an int code written with two digits
str_code_padded(code) == IF code.ty = "int" THEN PyStr(zfill(str_int(code.v), 2)) ELSE code

\* str(code) for a code given as an int or as a str
str_code(code) == IF code.ty = "int" THEN PyStr(str_int(code.v)) ELSE code

\* What `raise ExceptionMigrosApi(code, message)` raises: the exception built
\* by __init__, or the ValueError of int(self.code) inside __init__.
ExceptionMigrosApi(code, message) ==
    LET self_code == IF code # None THEN str_code(code) ELSE None
        by_str == dict_get(ERROR_CODES, self_code)
    IN  IF message # None THEN Exc("ExceptionMigrosApi", self_code, message)
        ELSE IF self_code # None THEN
            IF Truthy(by_str) THEN Exc("ExceptionMigrosApi", self_code, by_str)
            ELSE IF ~IntParses(self_code.v)
                 THEN Exc("ValueError", None, PyStr(<<"invalid literal for int()">>))
                 ELSE Exc("ExceptionMigrosApi", self_code,
                          dict_get(ERROR_CODES, PyInt(int_str(self_code.v))))
        ELSE Exc("ExceptionMigrosApi", None, PyStr(<<"Unknown error occurred">>))

\* str(e) of an exception, as the handlers interpolate it into messages
str_exc(e) ==
    IF e.type = "ExceptionMigrosApi" /\ Truthy(e.code)
    THEN <<"Error ">> \o e.code.v \o <<": ">> \o e.msg.v
    ELSE e.msg.v

\* The classes of requests.exceptions.RequestException the transport raises.
IsRequestException(e) ==
    e.type \in {"ConnectionError", "HTTPError", "RetryError", "ReadTimeout"}

ConnectionError == Exc("ConnectionError", None, PyStr(<<"connection failed">>))
\* the ConnectionError of a connection that broke while the answer was read
ConnectionAborted == Exc("ConnectionError", None, PyStr(<<"connection aborted">>))
\* requests.exceptions.ReadTimeout (a Timeout, no ConnectionError): no answer
\* came within the timeout of the request
ReadTimeout ==
    Exc("ReadTimeout", None,
        PyStr(<<"HTTPSConnectionPool(host='login.migros.ch', port=443): ",
                "Read timed out. (read timeout=10)">>))
HTTPError == Exc("HTTPError", None, PyStr(<<"server error status">>))
\* raised by session.get when the adapter's retries are used up
RetryError(status) ==
    Exc("RetryError", None,
        PyStr(<<"Max retries exceeded: too many ">> \o str_int(status)
                  \o <<" error responses">>))

(***************************************************************************)
(* Listing markup.  An element carries the attributes the extractor reads. *)
(***************************************************************************)
Element(tag, aria_label, class, type, value, data_value, href, text) ==
    [tag |-> tag, aria_label |-> aria_label, class |-> class, type |-> type,
     value |-> value, data_value |-> data_value, href |-> href, text |-> text]

\* <tr>: where a listing row starts
TrEl == Element("tr", None, None, None, None, None, None, <<>>)
\* <input type="checkbox" value=...>: the selector control of a row
CheckboxEl(value) ==
    Element("input", None, None, PyStr(<<"checkbox">>), value, None, None, <<>>)
\* <a class="ui-js-toggle-modal" href=...>: the detail link of a row
LinkEl(href) ==
    Element("a", None, PyStr(<<"ui-js-toggle-modal">>), None, None, None, href, <<>>)
\* <td>text</td>: a data cell
TdEl(text) == Element("td", None, None, None, None, None, None, text)
\* <a aria-label="Seite" data-value=...>: a pagination control
PageAnchorEl(data_value) ==
    Element("a", PyStr(<<"Seite">>), None, None, None, data_value, None, <<>>)

\* A response: its status, its body (elements, or text tokens for the login
\* page) and the cookie its Set-Cookie header carries (None if it has none).
Response(status, content, set_cookie) ==
    [status |-> status, content |-> content, set_cookie |-> set_cookie]

\* A request that ends with no response: the connection could not be opened
\* (NoResponse), the server closed it after the request was sent
\* (BrokenResponse), or no answer came within the timeout (TimedOut).
NoResponse == [failure |-> "connect"]
BrokenResponse == [failure |-> "read"]
TimedOut == [failure |-> "timeout"]

IsPageAnchor(e) == e.tag = "a" /\ e.aria_label = PyStr(<<"Seite">>)
IsCheckbox(e) == e.tag = "input" /\ e.type = PyStr(<<"checkbox">>)
IsModalLink(e) == e.tag = "a" /\ e.class = PyStr(<<"ui-js-toggle-modal">>)
IsTd(e) == e.tag = "td"
\* class_=["error", "error-message", "alert-danger"]
IsErrorMessage(e) ==
    e.class \in {PyStr(<<"error">>), PyStr(<<"error-message">>), PyStr(<<"alert-danger">>)}
\* string=lambda text: "Cumulus" in str(text)
HasCumulusString(e) == \E i \in 1..Len(e.text) : e.text[i] = "Cumulus"

\* The selectors the code searches with.
SelPageAnchor == "a[aria-label=Seite]"
SelCheckbox == "input[type=checkbox]"
SelModalLink == "a.ui-js-toggle-modal"
SelTd == "td"
SelErrorMessage == ".error,.error-message,.alert-danger"
SelCumulusString == "string:Cumulus"

Matches(selector, e) ==
    CASE selector = SelPageAnchor -> IsPageAnchor(e)
      [] selector = SelCheckbox -> IsCheckbox(e)
      [] selector = SelModalLink -> IsModalLink(e)
      [] selector = SelTd -> IsTd(e)
      [] selector = SelErrorMessage -> IsErrorMessage(e)
      [] selector = SelCumulusString -> HasCumulusString(e)

\* soup.find_all(...): the positions of the matching elements, in document order
find_all(soup, selector) ==
    SelectSeq(Range1(Len(soup)), LAMBDA i : Matches(selector, soup[i]))

\* element.find_next(...): the first matching element later in the DOCUMENT
\* than position i (0 stands for None)
find_next(soup, i, selector) ==
    IF \E j \in (i + 1)..Len(soup) : Matches(selector, soup[j])
    THEN CHOOSE j \in (i + 1)..Len(soup) :
            /\ Matches(selector, soup[j])
            /\ \A k \in (i + 1)..(j - 1) : ~Matches(selector, soup[k])
    ELSE 0

\* s.split("receiptId=")[-1]: what follows the last marker, or all of s
RECURSIVE split_last(_, _)
split_last(s, marker) ==
    IF \E i \in 1..Len(s) : s[i] = marker
    THEN split_last(SubSeq(s, (CHOOSE i \in 1..Len(s) :
                                /\ s[i] = marker
                                /\ \A k \in 1..(i - 1) : s[k] # marker) + 1, Len(s)),
                    marker)
    ELSE s

(***************************************************************************)
(* _parse_receipt_data: the record extractor.                              *)
(***************************************************************************)
\* max(pages) of a non-empty list
RECURSIVE py_max(_)
py_max(s) ==
    IF Len(s) = 1 THEN s[1]
    ELSE LET m == py_max(Tail(s)) IN IF s[1] >= m THEN s[1] ELSE m

\* The pagination loop: the int of every truthy, isnumeric data-value, in
\* document order; int() raises ValueError on a numeric non-decimal string.
RECURSIVE collect_pages(_, _, _)
collect_pages(soup, idxs, pages) ==
    IF idxs = <<>> THEN [exc |-> None, pages |-> pages]
    ELSE LET page_value == soup[Head(idxs)].data_value
         IN  IF Truthy(page_value) /\ isnumeric(page_value.v)
             THEN IF IntParses(page_value.v)
                  THEN collect_pages(soup, Tail(idxs),
                                     Append(pages, int_str(page_value.v)))
                  ELSE [exc |-> Exc("ValueError", None,
                                    PyStr(<<"invalid literal for int()">>)),
                        pages |-> pages]
             ELSE collect_pages(soup, Tail(idxs), pages)

\* Variant of the page count that takes the value of the last control.
total_pages_last(pages) == IF pages # <<>> THEN Last(pages) ELSE 1

\* total_pages = max(pages) if pages else 1
total_pages_of(pages) == IF pages # <<>> THEN py_max(pages) ELSE 1

ReceiptRecord(pdf_ref, receipt_id, store_name, cost, cumulus_points) ==
    [pdf_ref |-> pdf_ref, receipt_id |-> receipt_id, store_name |-> store_name,
     cost |-> cost, cumulus_points |-> cumulus_points]

\* Variant of the store that keeps the entry an id already has.
store_if_absent(result_dict, download_id, record) ==
    IF download_id \in DOMAIN result_dict THEN result_dict
    ELSE dict_set(result_dict, download_id, record)

\* result_dict[download_id] = {...}
store_record(result_dict, download_id, record) ==
    dict_set(result_dict, download_id, record)

\* One pass of the loop over the checkboxes, for the checkbox at position i.
parse_item(soup, i, result_dict) ==
    LET item == soup[i]
        download_id == item.value
        pdf_ref == find_next(soup, i, SelModalLink)
        store_name == find_next(soup, pdf_ref, SelTd)
        cost == IF store_name # 0 THEN find_next(soup, store_name, SelTd) ELSE 0
        points == IF cost # 0 THEN find_next(soup, cost, SelTd) ELSE 0
    IN  IF item.value = PyStr(<<"all">>) THEN [exc |-> None, dict |-> result_dict]
        ELSE IF pdf_ref = 0 THEN [exc |-> None, dict |-> result_dict]
        ELSE IF soup[pdf_ref].href = None
             THEN [exc |-> Exc("AttributeError", None,
                               PyStr(<<"'NoneType' object has no attribute 'split'">>)),
                   dict |-> result_dict]
        ELSE IF store_name = 0 \/ cost = 0 \/ points = 0
             THEN [exc |-> None, dict |-> result_dict]
        ELSE [exc |-> None,
              dict |-> store_record(result_dict, download_id,
                          ReceiptRecord(soup[pdf_ref].href,
                                        PyStr(split_last(soup[pdf_ref].href.v, "receiptId=")),
                                        PyStr(strip(soup[store_name].text)),
                                        PyStr(strip(soup[cost].text)),
                                        PyStr(strip(soup[points].text))))]

\* The loop over soup.find_all('input', type checkbox); an exception ends it.
RECURSIVE parse_items(_, _, _)
parse_items(soup, idxs, result_dict) ==
    IF idxs = <<>> THEN [exc |-> None, dict |-> result_dict]
    ELSE LET r == parse_item(soup, Head(idxs), result_dict)
         IN  IF r.exc # None THEN r ELSE parse_items(soup, Tail(idxs), r.dict)

\* except Exception as err: raise Exception("Failed to parse receipt data: ...")
parse_failure(err) ==
    Exc("Exception", None, PyStr(<<"Failed to parse receipt data: ">> \o str_exc(err)))

\* Variant of _parse_receipt_data that refuses a response with an error
\* status before reading its body.
parse_receipt_data_checked(response, result_dict) ==
    LET soup == response.content
        pg == collect_pages(soup, find_all(soup, SelPageAnchor), <<>>)
        it == parse_items(soup, find_all(soup, SelCheckbox), result_dict)
    IN  IF response.status >= 400
        THEN [exc |-> parse_failure(Exc("HTTPError", None, PyStr(<<"server error status">>))),
              total_pages |-> None, dict |-> result_dict]
        ELSE IF pg.exc # None
        THEN [exc |-> parse_failure(pg.exc), total_pages |-> None, dict |-> result_dict]
        ELSE IF it.exc # None
        THEN [exc |-> parse_failure(it.exc), total_pages |-> None, dict |-> it.dict]
        ELSE [exc |-> None, total_pages |-> PyInt(total_pages_of(pg.pages)), dict |-> it.dict]

\* _parse_receipt_data(response, result_dict): the exception raised (None if
\* none), the total_pages returned, and result_dict as the call leaves it.
_parse_receipt_data(response, result_dict) ==
    LET soup == response.content
        pg == collect_pages(soup, find_all(soup, SelPageAnchor), <<>>)
        it == parse_items(soup, find_all(soup, SelCheckbox), result_dict)
    IN  IF pg.exc # None
        THEN [exc |-> parse_failure(pg.exc), total_pages |-> None, dict |-> result_dict]
        ELSE IF it.exc # None
        THEN [exc |-> parse_failure(it.exc), total_pages |-> None, dict |-> it.dict]
        ELSE [exc |-> None, total_pages |-> PyInt(total_pages_of(pg.pages)), dict |-> it.dict]

(***************************************************************************)
(* Listing pages the server may send.  A page is written from its rows and *)
(* its pagination controls: a row is <tr>, its checkbox, its detail link   *)
(* (when it has one) and its data cells; the pagination follows the rows.  *)
(***************************************************************************)
IdA == PyStr(<<"A">>)
IdB == PyStr(<<"B">>)
IdAll == PyStr(<<"all">>)

Href1 == PyStr(<<"/service/avantaReceiptExport/html?", "receiptId=", "r1">>)
Href2 == PyStr(<<"/service/avantaReceiptExport/html?", "receiptId=", "r2">>)

NoLink == [el |-> FALSE, href |-> None]
Link(href) == [el |-> TRUE, href |-> href]

RowShape(value, link, ntd) == [value |-> value, link |-> link, ntd |-> ntd]

\* The texts of a row's store, cost and points cells, as the page pads them.
CellTexts(value) ==
    << <<" ", "Migros ", Head(value.v), " ">>,
       <<"CHF ", Head(value.v)>>,
       <<"points ", Head(value.v), " ">> >>

RowMarkup(r) ==
    <<TrEl, CheckboxEl(r.value)>>
        \o (IF r.link.el THEN <<LinkEl(r.link.href)>> ELSE <<>>)
        \o [i \in 1..r.ntd |-> TdEl(CellTexts(r.value)[i])]

RECURSIVE RowsMarkup(_)
RowsMarkup(rows) ==
    IF rows = <<>> THEN <<>> ELSE RowMarkup(Head(rows)) \o RowsMarkup(Tail(rows))

Content(pag, rows) == RowsMarkup(rows) \o [i \in 1..Len(pag) |-> PageAnchorEl(pag[i])]

SeqsUpTo(S, n) == UNION {[1..k -> S] : k \in 0..n}

SelectAllRow == RowShape(IdAll, NoLink, 0)
ValidRowA1 == RowShape(IdA, Link(Href1), 3)

\* Rows of the extractor runs: with the first link target every number of
\* cells, without a link no cells or all, with a link lacking its target or
\* with the second target all cells; and the select-all control.
RowShapes ==
    {RowShape(v, Link(Href1), n) : v \in {IdA, IdB}, n \in 0..3}
        \cup {RowShape(v, NoLink, n) : v \in {IdA, IdB}, n \in {0, 3}}
        \cup {RowShape(v, l, 3) : v \in {IdA, IdB}, l \in {Link(None), Link(Href2)}}
        \cup {SelectAllRow}

DataValues ==
    {None, PyStr(<<>>), PyStr(<<"x">>), PyStr(<<"0">>), PyStr(<<"2">>),
     PyStr(<<"3">>), PyStr(<<"1", "2">>), PyStr(<<"sup2">>)}

\* Pages of the extractor runs: every pagination with few rows, and every
\* row list with little pagination.
ExtractResponses ==
    {Response(200, Content(p, r), None) :
        p \in SeqsUpTo(DataValues, MaxPag), r \in {<<>>, <<ValidRowA1>>}}
    \cup
    {Response(200, Content(p, r), None) :
        p \in {<<>>}, r \in SeqsUpTo(RowShapes, MaxRows)}

\* result_dict as an earlier page of the same call may have left it
PriorDicts ==
    {EmptyDict,
     _parse_receipt_data(Response(200, Content(<<>>, <<ValidRowA1>>), None), EmptyDict).dict}

(***************************************************************************)
(* SpecExtract: one run of the extractor on one page.                      *)
(***************************************************************************)
InitExtract ==
    /\ pc = "extract"
    /\ xpage \in ExtractResponses
    /\ xdict \in PriorDicts
    /\ xout = None
    /\ trace = <<>>
    /\ jar = <<>>
    /\ headers_cookie = None
    /\ exc = None
    /\ period = None
    /\ current_page = 1
    /\ total_pages = None
    /\ final_dict = EmptyDict
    /\ response_list = PyList(<<>>)
    /\ returned = None
    /\ xcode = None
    /\ xmessage = None
    /\ xerr = None

Extract ==
    /\ pc = "extract"
    /\ xout' = _parse_receipt_data(xpage, xdict)
    /\ pc' = "extracted"
    /\ UNCHANGED <<trace, jar, headers_cookie, exc, period, current_page,
                   total_pages, final_dict, response_list, returned, xpage, xdict,
                   xcode, xmessage, xerr>>

NextExtract == Extract

SpecExtract == InitExtract /\ [][NextExtract]_vars

(***************************************************************************)
(* One construction of ExceptionMigrosApi on every code and message of the *)
(* input sets.                                                             *)
(***************************************************************************)
\* codes: absent, ints, their string forms, and strings that are no number
CatalogInputCodes ==
    {None} \cup {PyInt(n) : n \in 0..MaxCode}
           \cup {PyStr(str_int(n)) : n \in 0..MaxCode}
           \cup {PyStr(<<"abc">>), PyStr(<<"E", "1">>)}

\* messages: absent, a custom text, the empty text
CatalogInputMessages == {None, PyStr(<<"custom text">>), PyStr(<<>>)}

InitCatalog ==
    /\ pc = "construct"
    /\ xcode \in CatalogInputCodes
    /\ xmessage \in CatalogInputMessages
    /\ xerr = None
    /\ xpage = None
    /\ xdict = EmptyDict
    /\ xout = None
    /\ trace = <<>>
    /\ jar = <<>>
    /\ headers_cookie = None
    /\ exc = None
    /\ period = None
    /\ current_page = 1
    /\ total_pages = None
    /\ final_dict = EmptyDict
    /\ response_list = PyList(<<>>)
    /\ returned = None

Construct ==
    /\ pc = "construct"
    /\ xerr' = ExceptionMigrosApi(xcode, xmessage)
    /\ pc' = "constructed"
    /\ UNCHANGED <<trace, jar, headers_cookie, exc, period, current_page,
                   total_pages, final_dict, response_list, returned, xpage, xdict,
                   xout, xcode, xmessage>>

NextCatalog == Construct

SpecCatalog == InitCatalog /\ [][NextCatalog]_vars

(***************************************************************************)
(* The session: cookie jar, cookie header, requests.                       *)
(***************************************************************************)
HostWww == "www.migros.ch"
HostLogin == "login.migros.ch"

\* A cookie as the jar keeps it: its name, its value and the host that set
\* it (the sites set their cookies without a Domain attribute, on path "/").
Cookie(name, value, domain) == [name |-> name, value |-> value, domain |-> domain]

SameCookie(a, b) == a.name = b.name /\ a.domain = b.domain

\* The session stores the Set-Cookie of every response it receives.  The jar
\* is keyed by domain, then name: the cookie replaces the jar's cookie of
\* that domain and name; a new name of a known domain goes behind that
\* domain's cookies; a new domain goes to the end.
jar_update(j, response) ==
    LET c == response.set_cookie
    IN  IF c = None THEN j
        ELSE IF \E i \in 1..Len(j) : SameCookie(j[i], c)
        THEN [i \in 1..Len(j) |-> IF SameCookie(j[i], c) THEN c ELSE j[i]]
        ELSE IF \E i \in 1..Len(j) : j[i].domain = c.domain
        THEN LET k == CHOOSE i \in 1..Len(j) :
                        /\ j[i].domain = c.domain
                        /\ \A m \in (i + 1)..Len(j) : j[m].domain # c.domain
             IN  SubSeq(j, 1, k) \o <<c>> \o SubSeq(j, k + 1, Len(j))
        ELSE Append(j, c)

\* session.cookies.get_dict(): one entry per name, at the place of the
\* name's first cookie, with the value of the name's last cookie
get_dict(j) ==
    LET firsts == SelectSeq([i \in 1..Len(j) |-> i],
                            LAMBDA i : \A m \in 1..(i - 1) : j[m].name # j[i].name)
        last_of(n) == CHOOSE i \in 1..Len(j) :
                         j[i].name = n /\ \A m \in (i + 1)..Len(j) : j[m].name # n
    IN  [x \in 1..Len(firsts) |->
            [name |-> j[firsts[x]].name, value |-> j[last_of(j[firsts[x]].name)].value]]

\* '; '.join(f"{name}={value}" ...) over a list of cookies
RECURSIVE join_cookies(_)
join_cookies(cs) ==
    IF cs = <<>> THEN <<>>
    ELSE IF Len(cs) = 1 THEN <<cs[1].name, "=", cs[1].value>>
    ELSE <<cs[1].name, "=", cs[1].value, "; ">> \o join_cookies(Tail(cs))

\* _login_cumulus: the header built by iterating over session.cookies
cookie_header_login(j) == PyStr(join_cookies(j))

\* get_all_receipts: the header built from session.cookies.get_dict()
cookie_header_receipts(j) == PyStr(join_cookies(get_dict(j)))

\* response.raise_for_status()
raise_for_status(response) == IF response.status >= 400 THEN HTTPError ELSE None

\* Retry(total=3, backoff_factor=1, status_forcelist=[429, 500, 502, 503, 504])
\* mounted on the session for both schemes.
RetryTotal == 3
BackoffFactor == 1
StatusForcelist == {429, 500, 502, 503, 504}
\* Retry.RETRY_AFTER_STATUS_CODES: the statuses repeated when the answer
\* carries a Retry-After header
RetryAfterStatus == {413, 429, 503}
\* the statuses the session follows when the answer names a location
RedirectStatus == {301, 302, 303, 307, 308}

\* What one request on the wire ends with: an answer (a record with a
\* status), or a failure of the connection.  An answer or failure may carry
\*   earlier      the outcomes the adapter dropped before it on the same URL
\*   history      the redirections the session followed before it
\*   retry_after  the seconds of its Retry-After header, when it has one
IsFailure(o) == "failure" \in DOMAIN o
Earlier(o) == IF "earlier" \in DOMAIN o THEN o.earlier ELSE <<>>
History(o) == IF "history" \in DOMAIN o THEN o.history ELSE <<>>
has_retry_after(o) == "retry_after" \in DOMAIN o

\* an outcome with one more attribute
With(o, field, value) ==
    [x \in DOMAIN o \cup {field} |-> IF x = field THEN value ELSE o[x]]

\* an answer the adapter dropped: its status
Answer(status) == [status |-> status]
\* a response the adapter handed over after it dropped the outcomes `earlier`
AfterRetries(r, earlier) == With(r, "earlier", earlier)
\* an answer that carries a Retry-After header
WithRetryAfter(r, seconds) == With(r, "retry_after", seconds)
\* an answer that sends the session to another URL
Redirect(status, location, set_cookie) ==
    [status |-> status, location |-> location, content |-> <<>>,
     set_cookie |-> set_cookie]
\* a response (or failure) the session reached by following `history`
Redirected(r, history) == With(r, "history", history)

IsRedirect(o) == ~IsFailure(o) /\ o.status \in RedirectStatus /\ "location" \in DOMAIN o

\* Retry.DEFAULT_ALLOWED_METHODS: GET is repeated, POST is not
Idempotent(method) == method = "GET"

\* Retry.is_retry(method, status_code, has_retry_after)
is_retry(method, o, total) ==
    /\ Idempotent(method)
    /\ \/ o.status \in StatusForcelist
       \/ /\ total > 0
          /\ has_retry_after(o)
          /\ o.status \in RetryAfterStatus

\* Retry.get_backoff_time(): nothing after the first failure, then
\* backoff_factor * 2 ** (failures - 1)
get_backoff_time(failures) ==
    IF failures <= 1 THEN 0 ELSE BackoffFactor * 2 ^ (failures - 1)

\* Retry.sleep(response): the Retry-After of the answer when it has one,
\* the backoff time otherwise (0: no pause)
retry_sleep(o, failures) ==
    IF ~IsFailure(o) /\ has_retry_after(o) /\ o.retry_after > 0
    THEN o.retry_after
    ELSE get_backoff_time(failures)

\* The adapter's loop below one request of the session (urlopen with the
\* Retry above): `earlier` are the outcomes still to come before `steady`,
\* the outcome the URL gives from then on; `total` the repetitions left;
\* `pauses` the pauses made so far.  A failure to connect is repeated for
\* any method; a connection closed after the request was sent, an answer
\* that does not come in time, and an answer with a status to repeat, only
\* for a method that is_retry accepts (otherwise the failure is raised as
\* it is: ConnectionError for the closed connection, ReadTimeout for the
\* answer that did not come).
\* The loop ends with a response, or with an error when the outcome is not
\* repeated or no repetition is left.
RECURSIVE urlopen(_, _, _, _, _)
urlopen(method, earlier, steady, total, pauses) ==
    LET o == IF earlier = <<>> THEN steady ELSE Head(earlier)
        rest == IF earlier = <<>> THEN <<>> ELSE Tail(earlier)
        requests == Len(pauses) + 1
        again == IF IsFailure(o)
                 THEN o.failure = "connect" \/ Idempotent(method)
                 ELSE is_retry(method, o, total)
    IN  IF ~again
        THEN [requests |-> requests, pauses |-> pauses,
              response |-> IF IsFailure(o) THEN None ELSE o,
              error |-> IF ~IsFailure(o) THEN None
                        ELSE IF o.failure = "timeout" THEN ReadTimeout
                        ELSE ConnectionAborted]
        ELSE IF total = 0
        THEN [requests |-> requests, pauses |-> pauses, response |-> None,
              error |-> IF IsFailure(o) THEN ConnectionError ELSE RetryError(o.status)]
        ELSE urlopen(method, rest, steady, total - 1,
                     Append(pauses, retry_sleep(o, requests)))

\* SessionRedirectMixin.rebuild_method: the method of the request that
\* follows a redirection
rebuild_method(method, status) ==
    IF status \in {302, 303} THEN "GET"
    ELSE IF status = 301 /\ method = "POST" THEN "GET"
    ELSE method

\* what the session keeps of one URL it requested: the method and the URL,
\* the requests the adapter put on the wire, its pauses (a pause of 0 is no
\* pause), and the response or the error the adapter ended with
Hop(method, url, sent) ==
    [method |-> method, url |-> url, requests |-> sent.requests,
     sleeps |-> SelectSeq(sent.pauses, LAMBDA s : s > 0),
     response |-> sent.response, error |-> sent.error]

\* Session.send with allow_redirects=True (the default of session.get, and
\* asked for by the POST): one entry per URL requested, first the URL of the
\* call, then the location of every redirection followed; `hops` are the
\* outcomes of these URLs in order and `sent` is what the adapter made of
\* the first of them.  The session stops at the first URL that ends in an
\* error or in a response that is no redirection.
RECURSIVE session_send(_, _, _)
RECURSIVE resolve_redirects(_, _, _, _)
resolve_redirects(method, url, hops, sent) ==
    IF sent.error = None /\ IsRedirect(sent.response) /\ Len(hops) > 1
    THEN <<Hop(method, url, sent)>>
            \o session_send(rebuild_method(method, sent.response.status),
                            sent.response.location, Tail(hops))
    ELSE <<Hop(method, url, sent)>>

session_send(method, url, hops) ==
    resolve_redirects(method, url, hops,
                      urlopen(method, Earlier(Head(hops)), Head(hops), RetryTotal, <<>>))

\* what went over the wire for the call of session.get / session.post that
\* the network answers with r
wire(method, url, r) == session_send(method, url, Append(History(r), r))

\* the requests put on the wire for the first k URLs of w
RECURSIVE sum_requests(_, _)
sum_requests(w, k) == IF k = 0 THEN 0 ELSE w[k].requests + sum_requests(w, k - 1)

\* the requests put on the wire for one call
requests_of(w) == sum_requests(w, Len(w))

wire_requests(method, r) == requests_of(wire(method, <<>>, r))

\* the session requested every URL of the call and the last one gave r
delivered_by(w, r) == Len(w) = Len(History(r)) + 1 /\ Last(w).error = None

\* the call ended with the response r handed to the caller
Delivered(method, r) == delivered_by(wire(method, <<>>, r), r)

\* The exception session.get / session.post and raise_for_status end with.
request_error_by(w, r) ==
    IF ~delivered_by(w, r) THEN Last(w).error ELSE raise_for_status(r)

request_error(method, r) == request_error_by(wire(method, <<>>, r), r)

\* session.cookies after the call: the Set-Cookie of every response the
\* session received, redirections included, in order (the answers the
\* adapter dropped never reach the session)
RECURSIVE jar_received(_, _, _)
jar_received(j, w, k) ==
    IF k = 0 THEN j
    ELSE IF w[k].response = None THEN jar_received(j, w, k - 1)
    ELSE jar_update(jar_received(j, w, k - 1), w[k].response)

jar_by(j, w) == jar_received(j, w, Len(w))

jar_after(j, method, r) == jar_by(j, wire(method, <<>>, r))

main_page == <<"https://www.migros.ch/">>
login_url == <<"https://login.migros.ch/login">>
cumulus_login == <<"https://www.migros.ch/de/cumulus/konto~checkImmediate=true~.html">>

\* self.url_receipts.format(period_from_str, period_to_str)
url_receipts(from_str, to_str) ==
    <<"https://www.migros.ch/de/cumulus/konto/kassenbons.html?sort=dateDsc&dateFrom=">>
        \o from_str \o <<"&dateTo=">> \o to_str

\* f"{request_url}&p={current_page}"
page_url(request_url, page) == request_url \o <<"&p=">> \o str_int(page)

\* What the run shows from outside, in order: the calls of session.get and
\* session.post (with the cookie header passed), what the session did on
\* the wire below a call, responses, sleeps of the program, calls of
\* get_all_receipts, raised errors.
Requested(method, url, cookie) == [op |-> method, url |-> url, cookie |-> cookie]
Received(r) == [op |-> "response", response |-> r]
Slept(secs) == [op |-> "sleep", secs |-> secs]
Called(period_from, period_to, kwargs) ==
    [op |-> "call", period_from |-> period_from, period_to |-> period_to,
     kwargs |-> kwargs]
Raised(e) == [op |-> "raise", exc |-> e]
\* the adapter repeated the request of one URL: the requests it put on the
\* wire for that URL (the first included) and its pauses
RetriesSpent(requests, sleeps) ==
    [op |-> "retries", requests |-> requests, sleeps |-> sleeps]
\* the session followed a redirection: the answer that named the location
\* and the request the session sent there
Followed(response, method, url) ==
    [op |-> "redirect", response |-> response, method |-> method, url |-> url]

\* the events below one call, URL by URL: the request that follows a
\* redirection (the first URL is requested by the call itself), then the
\* adapter's repetitions if there were any
RECURSIVE wire_events(_, _)
wire_events(w, k) ==
    IF k > Len(w) THEN <<>>
    ELSE (IF k = 1 THEN <<>>
          ELSE <<Followed(w[k - 1].response, w[k].method, w[k].url)>>)
         \o (IF w[k].requests > 1
             THEN <<RetriesSpent(w[k].requests, w[k].sleeps)>> ELSE <<>>)
         \o wire_events(w, k + 1)

\* the events of one call: the call with its first request, what the
\* session did below it, and the response if one was handed to the caller
exchange_events(w, r) ==
    wire_events(w, 1) \o (IF delivered_by(w, r) THEN <<Received(r)>> ELSE <<>>)

Exchange(method, url, cookie, r) ==
    <<Requested(method, url, cookie)>> \o exchange_events(wire(method, url, r), r)

(***************************************************************************)
(* Construction: _init_session, __authenticate, _login_cumulus.            *)
(***************************************************************************)
CsrfMarker == "\"_csrf\" content=\""
Quote == "\""

\* Variant of the token search that yields an empty token where the pattern
\* does not match.
re_search_csrf_or_empty(text) ==
    IF \E i \in 2..Len(text) : text[i - 1] = CsrfMarker /\ text[i] # Quote
    THEN LET i == CHOOSE x \in 2..Len(text) :
                    /\ text[x - 1] = CsrfMarker /\ text[x] # Quote
                    /\ \A y \in 2..(x - 1) : ~(text[y - 1] = CsrfMarker /\ text[y] # Quote)
             j == CHOOSE x \in i..Len(text) :
                    /\ \A y \in i..x : text[y] # Quote
                    /\ (x = Len(text) \/ text[x + 1] = Quote)
         IN  PyStr(SubSeq(text, i, j))
    ELSE PyStr(<<>>)

\* re.search(self.csrf_pattern, response.text): the first place that follows
\* the marker and starts a non-empty run of non-quote text; group(1) is that
\* run.  None when there is no match.
re_search_csrf(text) ==
    IF \E i \in 2..Len(text) : text[i - 1] = CsrfMarker /\ text[i] # Quote
    THEN LET i == CHOOSE x \in 2..Len(text) :
                    /\ text[x - 1] = CsrfMarker /\ text[x] # Quote
                    /\ \A y \in 2..(x - 1) : ~(text[y - 1] = CsrfMarker /\ text[y] # Quote)
             j == CHOOSE x \in i..Len(text) :
                    /\ \A y \in i..x : text[y] # Quote
                    /\ (x = Len(text) \/ text[x + 1] = Quote)
         IN  PyStr(SubSeq(text, i, j))
    ELSE None

\* str.lower() on the tokens of a URL
py_lower(tok) == IF tok = "Authentication_Error" THEN "authentication_error" ELSE tok

\* " | ".join(msg.get_text(strip=True) for msg in error_messages)
RECURSIVE join_error_texts(_, _)
join_error_texts(soup, idxs) ==
    IF idxs = <<>> THEN <<>>
    ELSE IF Len(idxs) = 1 THEN strip(soup[idxs[1]].text)
    ELSE strip(soup[idxs[1]].text) \o <<" | ">> \o join_error_texts(soup, Tail(idxs))

\* soup.find_all(string=lambda text: "Cumulus" in str(text))
cumulus_elements(soup) ==
    find_all(soup, SelCumulusString)

\* Variant of the warm-up handler that logs the error and goes on.
init_session_except_swallow(e) == None

\* _init_session: except Exception as e: log; raise
init_session_except(e) == e

\* __authenticate: the three except clauses, in their order
authenticate_except(e) ==
    IF IsRequestException(e)
    THEN ExceptionMigrosApi(PyInt(1),
             PyStr(<<"Network error during authentication: ">> \o str_exc(e)))
    ELSE IF e.type = "ExceptionMigrosApi" THEN e
    ELSE ExceptionMigrosApi(PyInt(1), PyStr(<<"Authentication failed: ">> \o str_exc(e)))

\* Variant of the subsystem handler that classifies whatever it catches as 3.
login_cumulus_except_wrap_all(e) ==
    ExceptionMigrosApi(PyInt(3), PyStr(<<"Cumulus login failed: ">> \o str_exc(e)))

\* _login_cumulus: except ExceptionMigrosApi: raise; except Exception: code 3
login_cumulus_except(e) ==
    IF e.type = "ExceptionMigrosApi" THEN e
    ELSE ExceptionMigrosApi(PyInt(3), PyStr(<<"Cumulus login failed: ">> \o str_exc(e)))

\* __init__: except Exception as e: log; raise
init_except(e) == e

\* What the body of __authenticate raises on the login page response.
authenticate_get_error(r) ==
    IF request_error("GET", r) # None THEN request_error("GET", r)
    ELSE IF re_search_csrf(r.content) = None
         THEN ExceptionMigrosApi(PyInt(1), PyStr(<<"CSRF token not found">>))
         ELSE None

\* What the body of __authenticate raises on the response to the POST.
authenticate_post_error(r) ==
    IF request_error("POST", r) # None THEN request_error("POST", r)
    ELSE LET error_messages == find_all(r.content, SelErrorMessage)
         IN  IF error_messages # <<>>
             THEN ExceptionMigrosApi(PyInt(1),
                      PyStr(<<"Login failed: ">> \o join_error_texts(r.content, error_messages)))
             ELSE IF \E i \in 1..Len(r.url) : py_lower(r.url[i]) = "authentication_error"
             THEN ExceptionMigrosApi(PyInt(1), PyStr(<<"Authentication failed">>))
             ELSE None

\* What the body of _login_cumulus raises on the response of the account page.
login_cumulus_error(r) ==
    IF request_error("GET", r) # None THEN request_error("GET", r)
    ELSE IF cumulus_elements(r.content) = <<>>
         THEN ExceptionMigrosApi(PyInt(3), PyStr(<<"Failed to access Cumulus account">>))
         ELSE None

\* Responses the site may give to the requests of the login sequence.
SessionCookie == Cookie("JSESSIONID", "s1", HostWww)
LoginHostCookie == Cookie("JSESSIONID", "s1", HostLogin)
TextEl(class, text) == Element("div", None, class, None, None, None, None, text)

RootResponses ==
    {Response(200, <<>>, Cookie("JSESSIONID", "s0", HostWww)), Response(404, <<>>, None),
     Response(503, <<>>, None),
     WithRetryAfter(Response(503, <<>>, None), 7),
     WithRetryAfter(Response(413, <<>>, None), 5)}

LoginPageResponses ==
    {Response(200, <<"<html>", "<meta name=", CsrfMarker, "t0k3n", Quote, ">">>, None),
     Response(200, <<"<html>", "<meta name=", CsrfMarker, Quote, ">">>, None),
     Response(200, <<"<html>", "<body>">>, None),
     Response(404, <<"<html>">>, None)}

\* A response to the POST with its url attribute: the URL of the POST, or
\* the location the login site sent the session to with a 302.
PostResponse(status, url, content, set_cookie) ==
    [status |-> status, url |-> url, content |-> content, set_cookie |-> set_cookie,
     history |-> IF url = login_url THEN <<>> ELSE <<Redirect(302, url, None)>>]

PostResponses ==
    {PostResponse(200, <<"https://www.migros.ch/">>, <<TextEl(None, <<"Willkommen">>)>>, sc) :
        sc \in {None, SessionCookie}}
    \cup
    {PostResponse(200, login_url, <<TextEl(None, <<"Willkommen">>)>>, LoginHostCookie),
     PostResponse(500, login_url, <<>>, None)}
    \cup
    {PostResponse(200, login_url, <<TextEl(PyStr(<<"error">>), <<" ", "Falsches Passwort", " ">>)>>, None),
     PostResponse(200, <<"https://login.migros.ch/", "Authentication_Error">>,
                  <<TextEl(None, <<"Login">>)>>, None),
     PostResponse(404, login_url, <<>>, None)}

CumulusResponses ==
    {Response(200, <<TextEl(None, <<"Mein ", "Cumulus", "-Konto">>)>>, None),
     Response(200, <<TextEl(None, <<"Bitte anmelden">>)>>, None),
     Response(404, <<>>, None),
     Response(503, <<>>, None),
     Redirected(Response(200, <<TextEl(None, <<"Bitte anmelden">>)>>, None),
                <<Redirect(302, login_url, Cookie("JSESSIONID", "s9", HostWww))>>)}

Init ==
    /\ pc = "init_session"
    /\ trace = <<>>
    /\ jar = <<>>
    /\ headers_cookie = None
    /\ exc = None
    /\ period = <<>>
    /\ current_page = 0
    /\ total_pages = None
    /\ final_dict = EmptyDict
    /\ response_list = PyList(<<>>)
    /\ returned = None
    /\ xpage = None
    /\ xdict = EmptyDict
    /\ xout = None
    /\ xcode = None
    /\ xmessage = None
    /\ xerr = None

walk_vars == <<period, current_page, total_pages, final_dict, response_list, returned>>
extract_vars == <<xpage, xdict, xout, xcode, xmessage, xerr>>

\* One step of construction: the request is sent and answered by r; `error`
\* is what the step's body raises on r and `handled` what reaches the caller
\* of the constructor through the except clauses (None: nothing is raised).
LoginStep(method, events, r, error, handled, sleeps, next_pc) ==
    /\ jar' = jar_after(jar, method, r)
    /\ IF handled = None
       THEN /\ trace' = trace \o events
                          \o (IF error = None THEN <<>> ELSE <<Raised(error)>>)
                          \o sleeps
            /\ pc' = next_pc
            /\ exc' = exc
       ELSE /\ trace' = trace \o events
                          \o (IF request_error(method, r) = None THEN sleeps ELSE <<>>)
                          \o <<Raised(error)>>
            /\ pc' = "failed"
            /\ exc' = handled
    /\ UNCHANGED <<walk_vars, extract_vars>>

\* _init_session(): GET the site root, raise_for_status, sleep(1).
_init_session ==
    /\ pc = "init_session"
    /\ \E r \in RootResponses \cup {NoResponse, BrokenResponse} :
          LET error == request_error("GET", r)
              handled == IF error = None THEN None
                         ELSE init_except(init_session_except(error))
          IN  LoginStep("GET", Exchange("GET", main_page, headers_cookie, r), r, error, handled,
                        <<Slept(1)>>, "authenticate_get")
    /\ UNCHANGED headers_cookie

\* __authenticate(), first half: GET the login page, raise_for_status,
\* sleep(1), search the anti-forgery token.
authenticate_get ==
    /\ pc = "authenticate_get"
    /\ \E r \in LoginPageResponses \cup {NoResponse, TimedOut} :
          LET error == authenticate_get_error(r)
              handled == IF error = None THEN None
                         ELSE init_except(login_cumulus_except(authenticate_except(error)))
          IN  LoginStep("GET", Exchange("GET", login_url, headers_cookie, r), r, error, handled,
                        <<Slept(1)>>, "authenticate_post")
    /\ UNCHANGED headers_cookie

\* __authenticate(), second half: sleep(2), POST the credentials,
\* raise_for_status, look for error regions and for the error URL.
authenticate_post ==
    /\ pc = "authenticate_post"
    /\ \E r \in PostResponses \cup {NoResponse, BrokenResponse, TimedOut} :
          LET error == authenticate_post_error(r)
              handled == IF error = None THEN None
                         ELSE init_except(login_cumulus_except(authenticate_except(error)))
          IN  LoginStep("POST", <<Slept(2)>> \o Exchange("POST", login_url, headers_cookie, r),
                        r, error, handled, <<>>, "login_cumulus")
    /\ UNCHANGED headers_cookie

\* _login_cumulus() after __authenticate(): set the cookie header from the
\* jar, GET the account page, raise_for_status, look for the marker.
_login_cumulus ==
    /\ pc = "login_cumulus"
    /\ headers_cookie' = cookie_header_login(jar)
    /\ \E r \in CumulusResponses \cup {NoResponse} :
          LET error == login_cumulus_error(r)
              handled == IF error = None THEN None
                         ELSE init_except(login_cumulus_except(error))
          IN  LoginStep("GET", Exchange("GET", cumulus_login, headers_cookie', r), r, error, handled,
                        <<>>, "ready")

(***************************************************************************)
(* get_all_receipts: validation, then the page walk.                       *)
(***************************************************************************)
Datetime(y, m, d) == [ty |-> "datetime", year |-> y, month |-> m, day |-> d]

\* isinstance(date, datetime)
isinstance_datetime(x) == x.ty = "datetime"

\* period_from > period_to on two datetime values
datetime_gt(a, b) ==
    \/ a.year > b.year
    \/ a.year = b.year /\ a.month > b.month
    \/ a.year = b.year /\ a.month = b.month /\ a.day > b.day

\* f"{date.year}-{date.month:02d}-{date.day:02d}"
_format_date(date) ==
    str_int(date.year) \o <<"-">> \o zfill(str_int(date.month), 2)
        \o <<"-">> \o zfill(str_int(date.day), 2)

\* Variant of the validation that tests only period_from for being a date; the
\* comparison of a datetime with another value then raises TypeError.
validate_dates_first_only(period_from, period_to) ==
    IF ~isinstance_datetime(period_from) THEN ExceptionMigrosApi(PyInt(4), None)
    ELSE IF ~isinstance_datetime(period_to)
         THEN Exc("TypeError", None, PyStr(<<"'>' not supported between instances">>))
    ELSE IF datetime_gt(period_from, period_to) THEN ExceptionMigrosApi(PyInt(5), None)
    ELSE None

\* Variant of the validation with the comparison turned round.
validate_dates_swapped(period_from, period_to) ==
    IF ~isinstance_datetime(period_from) \/ ~isinstance_datetime(period_to)
    THEN ExceptionMigrosApi(PyInt(4), None)
    ELSE IF datetime_gt(period_to, period_from) THEN ExceptionMigrosApi(PyInt(5), None)
    ELSE None

\* The validation at the head of get_all_receipts: the exception it raises,
\* or None.
validate_dates(period_from, period_to) ==
    IF ~isinstance_datetime(period_from) \/ ~isinstance_datetime(period_to)
    THEN ExceptionMigrosApi(PyInt(4), None)
    ELSE IF datetime_gt(period_from, period_to) THEN ExceptionMigrosApi(PyInt(5), None)
    ELSE None

\* get_all_receipts: except ExceptionMigrosApi: raise; except Exception:
\* raise Exception(f"Failed to get receipts: {str(err)}")
get_all_receipts_except(e) ==
    IF e.type = "ExceptionMigrosApi" THEN e
    ELSE Exc("Exception", None, PyStr(<<"Failed to get receipts: ">> \o str_exc(e)))

\* Variant of the loop exit that asks for one page more.
loop_break_strict(page, total) == page > total

\* if current_page >= total_pages: break
loop_break(page, total) == page >= total

\* Arguments the caller may pass as a period end.
Day1 == Datetime(2024, 1, 1)
Day31 == Datetime(2024, 1, 31)
NotADate == PyStr(<<"2024-01-01">>)
DateInputs == {NotADate, Day1, Day31}

\* **kwargs of get_all_receipts: the keyword "response" left out, a list
\* the caller already holds, or None.
NoKwargs == [ty |-> "dict", v |-> EmptyDict]
Kwargs(response) == [ty |-> "dict", v |-> dict_set(EmptyDict, "response", response)]
EarlierList == PyList(<<PyStr(<<"earlier">>)>>)
KwargsInputs == {NoKwargs, Kwargs(EarlierList), Kwargs(None)}

\* response_list = []; if "response" in kwargs: response_list = kwargs.get("response")
response_list_of(kwargs) ==
    IF "response" \in DOMAIN kwargs.v THEN dict_get(kwargs.v, "response") ELSE PyList(<<>>)

\* response_list.append(response): the exception raised (None if none)
append_error(list) ==
    IF list.ty = "list" THEN None
    ELSE Exc("AttributeError", None,
             PyStr(<<"'NoneType' object has no attribute 'append'">>))

\* Listing pages the site may answer with.
RowB2 == RowShape(IdB, Link(Href2), 3)
RowA2 == RowShape(IdA, Link(Href2), 3)
RowANoLink == RowShape(IdA, NoLink, 3)

ListingResponses ==
    {Response(200, Content(p, r), None) :
        p \in {<<>>, <<PyStr(<<"2">>)>>},
        r \in {<<>>, <<ValidRowA1>>, <<RowB2>>, <<RowA2>>, <<RowANoLink>>}}
    \cup
    {Response(200, Content(p, r), None) :
        p \in {<<PyStr(<<"3">>)>>, <<PyStr(<<"9">>)>>},
        r \in {<<>>, <<ValidRowA1>>}}
    \cup
    {Response(200, Content(<<PyStr(<<"2">>)>>, <<ValidRowA1>>), Cookie("JSESSIONID", "s2", HostWww)),
     Response(200, Content(<<>>, <<RowB2>>), Cookie("JSESSIONID", "s2", HostWww)),
     Response(200, Content(<<PyStr(<<"sup2">>)>>, <<ValidRowA1>>), None),
     Response(404, <<>>, None),
     Response(500, Content(<<PyStr(<<"2">>)>>, <<RowB2>>), None),
     Response(403, Content(<<PyStr(<<"2">>)>>, <<RowB2>>), None),
     AfterRetries(Response(200, Content(<<>>, <<RowB2>>), None),
                  <<Answer(503), Answer(502)>>)}

\* get_all_receipts(period_from, period_to) up to the first request.
get_all_receipts ==
    /\ pc = "ready"
    /\ \E period_from \in DateInputs, period_to \in DateInputs, kwargs \in KwargsInputs :
          LET error == validate_dates(period_from, period_to)
          IN  /\ response_list' = response_list_of(kwargs)
              /\ IF error # None
                 THEN /\ trace' = trace \o <<Called(period_from, period_to, kwargs),
                                             Raised(error)>>
                      /\ pc' = "raised"
                      /\ exc' = get_all_receipts_except(error)
                      /\ UNCHANGED <<headers_cookie, period, final_dict>>
                 ELSE /\ trace' = Append(trace, Called(period_from, period_to, kwargs))
                      /\ pc' = "fetch_page"
                      /\ headers_cookie' = cookie_header_receipts(jar)
                      /\ period' = <<_format_date(period_from), _format_date(period_to)>>
                      /\ final_dict' = EmptyDict
                      /\ UNCHANGED exc
    /\ current_page' = 1
    /\ UNCHANGED <<jar, total_pages, returned, extract_vars>>

\* One turn of the while loop: request the page, append the response to
\* response_list, extract it into final_dict, then leave the loop or move
\* to the next page and sleep one second.
fetch_page ==
    /\ pc = "fetch_page"
    /\ current_page <= MaxPages
    /\ \E r \in ListingResponses \cup {NoResponse} :
          LET url == page_url(url_receipts(period[1], period[2]), current_page)
              events == Exchange("GET", url, headers_cookie, r)
          IN  /\ jar' = jar_after(jar, "GET", r)
              /\ IF ~Delivered("GET", r)
                 THEN /\ trace' = trace \o events \o <<Raised(request_error("GET", r))>>
                      /\ pc' = "raised"
                      /\ exc' = get_all_receipts_except(request_error("GET", r))
                      /\ UNCHANGED <<response_list, final_dict, total_pages,
                                     current_page, returned>>
                 ELSE IF append_error(response_list) # None
                 THEN /\ trace' = trace \o events \o <<Raised(append_error(response_list))>>
                      /\ pc' = "raised"
                      /\ exc' = get_all_receipts_except(append_error(response_list))
                      /\ UNCHANGED <<response_list, final_dict, total_pages,
                                     current_page, returned>>
                 ELSE LET out == _parse_receipt_data(r, final_dict)
                      IN  /\ response_list' = PyList(Append(response_list.v, r))
                          /\ final_dict' = out.dict
                          /\ IF out.exc # None
                             THEN /\ trace' = trace \o events \o <<Raised(out.exc)>>
                                  /\ pc' = "raised"
                                  /\ exc' = get_all_receipts_except(out.exc)
                                  /\ UNCHANGED <<total_pages, current_page, returned>>
                             ELSE /\ total_pages' = out.total_pages
                                  /\ exc' = exc
                                  /\ IF loop_break(current_page, out.total_pages.v)
                                     THEN /\ trace' = trace \o events
                                          /\ pc' = "returned"
                                          /\ returned' = [ty |-> "dict", v |-> out.dict]
                                          /\ UNCHANGED current_page
                                     ELSE /\ trace' = trace \o events \o <<Slept(1)>>
                                          /\ pc' = "fetch_page"
                                          /\ current_page' = current_page + 1
                                          /\ UNCHANGED returned
    /\ UNCHANGED <<headers_cookie, period, extract_vars>>

(***************************************************************************)
(* get_receipt: the two detail requests and the receipt item.              *)
(***************************************************************************)
url_export_data == <<"https://www.migros.ch/service/avantaReceiptExport/">>

\* get_receipt: the header built from session.cookies.get_dict()
cookie_header_detail(j) == PyStr(join_cookies(get_dict(j)))

\* f"{receipt_id}": str() of the argument
py_format(x) == IF x.ty = "int" THEN str_int(x.v) ELSE x.v

\* receipt_id.split("?")[0]: what precedes the first question mark
split_first(s, marker) ==
    IF \E i \in 1..Len(s) : s[i] = marker
    THEN SubSeq(s, 1, (CHOOSE i \in 1..Len(s) :
                          s[i] = marker /\ \A k \in 1..(i - 1) : s[k] # marker) - 1)
    ELSE s

\* ReceiptItem(receipt_id=..., soup=..., pdf=...): the item keeps what it is
\* given (its class is not part of the repository's sources at hand).
ReceiptItem(receipt_id, soup, pdf) ==
    [ty |-> "ReceiptItem", receipt_id |-> receipt_id, soup |-> soup, pdf |-> pdf]

\* What the body of get_receipt raises: both requests are sent before the
\* status of either response is looked at; the clean-up of the id needs a str.
get_receipt_error(receipt_id, r1, r2) ==
    IF ~Delivered("GET", r1) THEN request_error("GET", r1)
    ELSE IF ~Delivered("GET", r2) THEN request_error("GET", r2)
    ELSE IF raise_for_status(r1) # None THEN raise_for_status(r1)
    ELSE IF raise_for_status(r2) # None THEN raise_for_status(r2)
    ELSE IF receipt_id.ty # "str"
         THEN Exc("AttributeError", None, PyStr(<<"'int' object has no attribute 'split'">>))
    ELSE None

\* get_receipt: the two except clauses; each raises
\* ExceptionMigrosApi(f"Failed ...") with the text in the place of the code.
get_receipt_except(e, receipt_id) ==
    IF IsRequestException(e)
    THEN ExceptionMigrosApi(
             PyStr(<<"Failed to retrieve receipt ">> \o py_format(receipt_id)), None)
    ELSE ExceptionMigrosApi(
             PyStr(<<"Failed to process receipt ">> \o py_format(receipt_id)
                       \o <<": ">> \o str_exc(e)), None)

CalledReceipt(receipt_id) == [op |-> "call_receipt", receipt_id |-> receipt_id]

\* Arguments and responses of get_receipt.
ReceiptIds == {PyStr(<<"r1">>), PyStr(<<"r1", "?", "v=2">>), PyInt(7)}

DetailResponses ==
    {Response(200, <<"receipt html">>, None),
     Response(200, <<"receipt html">>, Cookie("JSESSIONID", "s3", HostWww)),
     Response(404, <<>>, None),
     Response(503, <<>>, None),
     AfterRetries(Response(200, <<"receipt html">>, None), <<WithRetryAfter(Answer(503), 7)>>)}

PdfResponses ==
    {Response(200, <<"receipt pdf">>, None), Response(404, <<>>, None),
     Response(503, <<>>, None)}

\* get_receipt(receipt_id): set the cookie header, request the HTML form and
\* the PDF form, check both statuses, clean the id and build the item.
get_receipt ==
    /\ pc = "ready"
    /\ \E receipt_id \in ReceiptIds :
       \E r1 \in DetailResponses \cup {NoResponse} :
       \E r2 \in PdfResponses \cup {NoResponse} :
          LET cookie == cookie_header_detail(jar)
              request_url == url_export_data \o <<"html?receiptId=">> \o py_format(receipt_id)
              request_pdf == url_export_data \o <<"pdf?receiptId=">> \o py_format(receipt_id)
              second == IF Delivered("GET", r1) THEN r2 ELSE NoResponse
              jar1 == jar_after(jar, "GET", r1)
              events == <<CalledReceipt(receipt_id)>>
                          \o Exchange("GET", request_url, cookie, r1)
                          \o (IF ~Delivered("GET", r1) THEN <<>>
                              ELSE Exchange("GET", request_pdf, cookie, r2))
              error == get_receipt_error(receipt_id, r1, second)
          IN  /\ headers_cookie' = cookie
              /\ jar' = IF Delivered("GET", r1) THEN jar_after(jar1, "GET", r2) ELSE jar1
              /\ IF error = None
                 THEN /\ trace' = trace \o events
                      /\ pc' = "returned"
                      /\ returned' = ReceiptItem(PyStr(split_first(receipt_id.v, "?")),
                                                 r1.content, r2.content)
                      /\ UNCHANGED exc
                 ELSE /\ trace' = trace \o events \o <<Raised(error)>>
                      /\ pc' = "raised"
                      /\ exc' = get_receipt_except(error, receipt_id)
                      /\ UNCHANGED returned
    /\ UNCHANGED <<period, current_page, total_pages, final_dict, response_list,
                   extract_vars>>

Next ==
    \/ _init_session
    \/ authenticate_get
    \/ authenticate_post
    \/ _login_cumulus
    \/ get_all_receipts
    \/ fetch_page
    \/ get_receipt

Spec == Init /\ [][Next]_vars

(***************************************************************************)
(* Rows of a page, as the claims speak of them: a row is a <tr> with the   *)
(* elements up to the next <tr>.  These definitions read the markup only;  *)
(* they use none of the extractor's operators.                             *)
(***************************************************************************)
IsTr(e) == e.tag = "tr"

RowStarts(soup) == {i \in 1..Len(soup) : IsTr(soup[i])}

\* the positions that belong to the row starting at position t
RowSpan(soup, t) ==
    {i \in (t + 1)..Len(soup) : \A u \in RowStarts(soup) : u > t => i < u}

RowCheckbox(soup, t) == CHOOSE i \in RowSpan(soup, t) : IsCheckbox(soup[i])

\* the row's own detail link: a link element inside the row (0 if none)
RowHasLink(soup, t) == \E i \in RowSpan(soup, t) : IsModalLink(soup[i])
RowLink(soup, t) ==
    IF RowHasLink(soup, t)
    THEN CHOOSE i \in RowSpan(soup, t) : IsModalLink(soup[i])
    ELSE 0

\* the row's own data cells: the cells inside the row, after its link
RowCells(soup, t) ==
    {i \in RowSpan(soup, t) : IsTd(soup[i]) /\ i > RowLink(soup, t)}

RowId(soup, t) == soup[RowCheckbox(soup, t)].value

\* a valid row: not the select-all control, with its own link (with a
\* target) and its own three data cells
RowValid(soup, t) ==
    /\ RowId(soup, t) # IdAll
    /\ RowHasLink(soup, t)
    /\ soup[RowLink(soup, t)].href # None
    /\ Cardinality(RowCells(soup, t)) >= 3

\* the n-th smallest element of a set of positions
RECURSIVE NthOf(_, _)
NthOf(S, n) ==
    LET m == CHOOSE x \in S : \A y \in S : x <= y
    IN  IF n = 1 THEN m ELSE NthOf(S \ {m}, n - 1)

\* the text following the receiptId= marker of a link target
AfterMarker(href) ==
    LET m == CHOOSE i \in 1..Len(href.v) : href.v[i] = "receiptId="
    IN  PyStr([i \in 1..(Len(href.v) - m) |-> href.v[m + i]])

\* a cell text without its padding blanks
Unpadded(text) == SelectSeq(text, LAMBDA c : c # " ")

\* the record of a valid row, read from the row's own elements
RowRecord(soup, t) ==
    LET cells == RowCells(soup, t)
        href == soup[RowLink(soup, t)].href
    IN  [pdf_ref |-> href,
         receipt_id |-> AfterMarker(href),
         store_name |-> PyStr(Unpadded(soup[NthOf(cells, 1)].text)),
         cost |-> PyStr(Unpadded(soup[NthOf(cells, 2)].text)),
         cumulus_points |-> PyStr(Unpadded(soup[NthOf(cells, 3)].text))]

\* rows of the page that carry download id k
RowsWithId(soup, k) == {t \in RowStarts(soup) : RowId(soup, t) = k}

\* the numeric page indexes a page's pagination controls expose
PageIndexes(soup) ==
    {int_str(soup[i].data_value.v) :
        i \in {j \in 1..Len(soup) :
                 /\ IsPageAnchor(soup[j])
                 /\ soup[j].data_value # None
                 /\ IntParses(soup[j].data_value.v)}}

Extracted == pc = "extracted"
ExtractedOk == pc = "extracted" /\ xout.exc = None

\* the row a checkbox at position i belongs to
RowOf(soup, i) == CHOOSE t \in RowStarts(soup) : i \in RowSpan(soup, t)

\* the checkboxes of the page under extraction, in the order they are processed
XCheckboxes == find_all(xpage.content, SelCheckbox)

\* the result mapping after the first j checkboxes of the page were processed
DictAfter(j) == parse_items(xpage.content, SubSeq(XCheckboxes, 1, j), xdict).dict

\* the exception that ended the loop within the first j checkboxes, if any
ExcAfter(j) == parse_items(xpage.content, SubSeq(XCheckboxes, 1, j), xdict).exc

\* the pagination loop of the page under extraction raised nothing
XPaginationOk ==
    collect_pages(xpage.content, find_all(xpage.content, SelPageAnchor), <<>>).exc = None

\* no link of the page lacks its target
AllLinksHaveHref(soup) ==
    \A i \in 1..Len(soup) : IsModalLink(soup[i]) => soup[i].href # None

(***************************************************************************)
(* Claims about the extractor (checked under SpecExtract).                 *)
(***************************************************************************)

\* C5: the pageCount extraction reports is the maximum of the numeric
\* data-values of the page's pagination elements, and 1 when there is none.
C5_PageCountIsMax ==
    ExtractedOk =>
        LET idx == PageIndexes(xpage.content)
        IN  IF idx = {} THEN xout.total_pages = PyInt(1)
            ELSE /\ xout.total_pages.v \in idx
                 /\ \A n \in idx : n <= xout.total_pages.v

\* C16: the page count extraction returns for a page it can parse is an
\* integer not below 1, whatever numeric data-values the pagination exposes.
C16_PageCountAtLeastOne ==
    ExtractedOk => (xout.total_pages.ty = "int" /\ xout.total_pages.v >= 1)

\* C5 witness: a page whose pagination exposes two different numeric values,
\* the larger one first, and a value that is ignored; the larger is reported.
C5_Witness ==
    /\ ExtractedOk
    /\ xout.total_pages = PyInt(12)
    /\ PageIndexes(xpage.content) = {2, 12}
    /\ \E i \in 1..Len(xpage.content) :
          /\ IsPageAnchor(xpage.content[i])
          /\ xpage.content[i].data_value = PyStr(<<"2">>)
          /\ \E j \in 1..(i - 1) :
                /\ IsPageAnchor(xpage.content[j])
                /\ xpage.content[j].data_value = PyStr(<<"1", "2">>)
    /\ \E i \in 1..Len(xpage.content) :
          /\ IsPageAnchor(xpage.content[i])
          /\ xpage.content[i].data_value \in {None, PyStr(<<"x">>)}

\* C6: on a page whose links all have a target (and whose pagination can be
\* read), extraction does not fail, a
\* row without a detail link of its own leaves no entry under its download id,
\* and every valid row is in the mapping with its own data.  (Rows are taken
\* with a download id no other row of the page and no earlier page carries,
\* so that an entry under the id can only come from that row.)
C6_MissingLinkRowSkipped ==
    (Extracted /\ AllLinksHaveHref(xpage.content) /\ XPaginationOk) =>
        /\ xout.exc = None
        /\ \A t \in RowStarts(xpage.content) :
              LET k == RowId(xpage.content, t)
              IN  (/\ RowsWithId(xpage.content, k) = {t}
                   /\ k \notin DOMAIN xdict
                   /\ k # IdAll)
                  => /\ ~RowHasLink(xpage.content, t) => k \notin DOMAIN xout.dict
                     /\ RowValid(xpage.content, t) =>
                          /\ k \in DOMAIN xout.dict
                          /\ xout.dict[k] = RowRecord(xpage.content, t)

\* C15: a row that has its detail link but lacks one of its three data cells
\* leaves no entry under its download id, and the record of a row with its
\* link has its three fields from the row's own cells.  (Rows are taken with
\* a download id no other row of the page and no earlier page carries.)
C15_NoPartialRecord ==
    (Extracted /\ AllLinksHaveHref(xpage.content) /\ XPaginationOk) =>
        \A t \in RowStarts(xpage.content) :
            LET k == RowId(xpage.content, t)
            IN  (/\ RowsWithId(xpage.content, k) = {t}
                 /\ k \notin DOMAIN xdict
                 /\ k # IdAll
                 /\ RowHasLink(xpage.content, t))
                => /\ Cardinality(RowCells(xpage.content, t)) < 3 => k \notin DOMAIN xout.dict
                   /\ k \in DOMAIN xout.dict => xout.dict[k] = RowRecord(xpage.content, t)

\* C7: every entry extraction built from the page has as key the value of the
\* selector control of a row of the page, never the select-all sentinel, and
\* as receipt_id the text after the receiptId= marker of that row's own link.
C7_EntryFromOwnRow ==
    ExtractedOk =>
        \A k \in DOMAIN xout.dict :
            (k \notin DOMAIN xdict \/ xout.dict[k] # xdict[k]) =>
                /\ k # IdAll
                /\ \E t \in RowsWithId(xpage.content, k) :
                      /\ RowHasLink(xpage.content, t)
                      /\ xpage.content[RowLink(xpage.content, t)].href # None
                      /\ xout.dict[k].receipt_id = AfterMarker(xpage.content[RowLink(xpage.content, t)].href)

\* C8 as claimed: once a download id has an entry, no valid row processed
\* later with the same id (on a later page, or later on the same page)
\* changes that entry.
C8_NeverReplaced ==
    (Extracted /\ XPaginationOk) =>
        \A j \in 0..(Len(XCheckboxes) - 1) :
            RowValid(xpage.content, RowOf(xpage.content, XCheckboxes[j + 1])) =>
                \A k \in DOMAIN DictAfter(j) :
                    /\ k \in DOMAIN DictAfter(j + 1)
                    /\ DictAfter(j + 1)[k] = DictAfter(j)[k]

\* C8 amended: an entry is changed only by a later row with the same download
\* id; no key is ever removed; and a valid row that is processed always
\* leaves its own record under its id, replacing an earlier entry (last
\* write wins).
C8_LastWriteWins ==
    Extracted =>
        IF ~XPaginationOk THEN xout.dict = xdict
        ELSE
        /\ xout.dict = DictAfter(Len(XCheckboxes))
        /\ \A j \in 0..(Len(XCheckboxes) - 1) :
              LET t == RowOf(xpage.content, XCheckboxes[j + 1])
                  id == xpage.content[XCheckboxes[j + 1]].value
              IN  /\ \A k \in DOMAIN DictAfter(j) :
                        /\ k \in DOMAIN DictAfter(j + 1)
                        /\ DictAfter(j + 1)[k] # DictAfter(j)[k] => k = id
                  /\ (RowValid(xpage.content, t) /\ ExcAfter(j) = None)
                     => /\ id \in DOMAIN DictAfter(j + 1)
                        /\ DictAfter(j + 1)[id] = RowRecord(xpage.content, t)

\* C8 witness: an entry left by an earlier page is replaced by the record of
\* a valid row of this page that carries the same download id.
C8_Witness ==
    /\ ExtractedOk
    /\ \E k \in DOMAIN xdict :
          /\ xout.dict[k] # xdict[k]
          /\ \E t \in RowsWithId(xpage.content, k) :
                /\ RowValid(xpage.content, t)
                /\ xout.dict[k] = RowRecord(xpage.content, t)

(***************************************************************************)
(* The run as seen from outside: the claims about construction and about   *)
(* the page walk read the trace of events.                                 *)
(***************************************************************************)
\* the listing responses the call has appended to response_list, in order
PagesReceived ==
    IF response_list.ty = "list"
    THEN SelectSeq(response_list.v, LAMBDA x : "status" \in DOMAIN x)
    ELSE <<>>

IsRequest(ev) == ev.op \in {"GET", "POST"}

LoginUrls == {main_page, login_url, cumulus_login}

\* the requests of construction, and the requests of the listing, in order
LoginRequests == SelectSeq(trace, LAMBDA ev : IsRequest(ev) /\ ev.url \in LoginUrls)
ListingRequests ==
    SelectSeq(trace, LAMBDA ev : IsRequest(ev) /\ ev.url[1] = url_receipts(<<>>, <<>>)[1])

\* the positions of the calls of get_all_receipts
CallIdx == {i \in 1..Len(trace) : trace[i].op = "call"}

\* the call of session.get or session.post that the event at position i
\* belongs to: the last one before i
CallOf(i) ==
    CHOOSE j \in 1..(i - 1) :
        IsRequest(trace[j]) /\ \A m \in (j + 1)..(i - 1) : ~IsRequest(trace[m])

\* the positions of the responses to the GET of the login page
LoginPageAnswers ==
    {i \in 2..Len(trace) :
        /\ trace[i].op = "response"
        /\ trace[CallOf(i)].op = "GET"
        /\ trace[CallOf(i)].url = login_url}

HasCsrfMarker(text) == \E i \in 1..Len(text) : text[i] = CsrfMarker

IsApiError(e, code) == e.type = "ExceptionMigrosApi" /\ e.code = PyStr(<<code>>)

(***************************************************************************)
(* Claims about construction and validation (checked under Spec).          *)
(***************************************************************************)

\* C1: when the body of the response to the login-page GET holds no
\* anti-forgery token marker, construction fails with code 1 and no
\* credential POST is issued; when the response has no error status the
\* message is the one about the token not being found.
C1_NoTokenNoPost ==
    \A i \in LoginPageAnswers :
        ~HasCsrfMarker(trace[i].response.content) =>
            /\ pc = "failed"
            /\ IsApiError(exc, "1")
            /\ trace[i].response.status < 400 => exc.msg = PyStr(<<"CSRF token not found">>)
            /\ \A j \in 1..Len(trace) : trace[j].op # "POST"

\* C1 witness: a login page without the marker was received with status 200
\* and construction has failed with the token message.
C1_Witness ==
    /\ pc = "failed"
    /\ \E i \in LoginPageAnswers :
          /\ trace[i].response.status = 200
          /\ ~HasCsrfMarker(trace[i].response.content)
    /\ exc.msg = PyStr(<<"CSRF token not found">>)

\* C2: a call of get_all_receipts in which period_from or period_to is not a
\* date fails with code 4 and its catalog message, and no request follows
\* the call.
C2_NotADateNoRequest ==
    \A i \in CallIdx :
        (trace[i].period_from.ty # "datetime" \/ trace[i].period_to.ty # "datetime") =>
            /\ pc = "raised"
            /\ IsApiError(exc, "4")
            /\ exc.msg = MsgNotDates
            /\ \A j \in (i + 1)..Len(trace) : ~IsRequest(trace[j])

\* C2 witness: a call whose period_from is a date and whose period_to is not
\* has failed with code 4.
C2_Witness ==
    /\ pc = "raised"
    /\ \E i \in CallIdx :
          /\ trace[i].period_from.ty = "datetime"
          /\ trace[i].period_to.ty # "datetime"
    /\ IsApiError(exc, "4")

\* C3: a call of get_all_receipts with two dates of which period_from is the
\* later fails with code 5 and its catalog message, and no request follows
\* the call.
C3_InvertedRangeNoRequest ==
    \A i \in CallIdx :
        (/\ trace[i].period_from.ty = "datetime"
         /\ trace[i].period_to.ty = "datetime"
         /\ datetime_gt(trace[i].period_from, trace[i].period_to)) =>
            /\ pc = "raised"
            /\ IsApiError(exc, "5")
            /\ exc.msg = MsgRange
            /\ \A j \in (i + 1)..Len(trace) : ~IsRequest(trace[j])

\* C3 witness: the call with 31 January as period_from and 1 January as
\* period_to has failed with code 5.
C3_Witness ==
    /\ pc = "raised"
    /\ \E i \in CallIdx : trace[i].period_from = Day31 /\ trace[i].period_to = Day1
    /\ IsApiError(exc, "5")

(***************************************************************************)
(* Claims about the page walk (checked under Spec).                        *)
(***************************************************************************)

\* the page count a listing page shows: the largest numeric page index of
\* its pagination controls, 1 when it shows none
Reports(r) ==
    LET idx == PageIndexes(r.content)
    IN  IF idx = {} THEN 1 ELSE CHOOSE n \in idx : \A m \in idx : m <= n

\* the pagination controls of the page carry decimal page indexes only
PlainPagination(r) ==
    \A i \in 1..Len(r.content) :
        (IsPageAnchor(r.content[i]) /\ r.content[i].data_value # None) =>
            (IntParses(r.content[i].data_value.v) \/ ~isnumeric(r.content[i].data_value.v))

\* the pages received so far belong to a listing of N pages: each reports N
ListingOf(N) ==
    /\ PagesReceived # <<>>
    /\ \A i \in 1..Len(PagesReceived) :
          Reports(PagesReceived[i]) = N /\ PlainPagination(PagesReceived[i])

\* the valid rows of the pages received, as <<page, row>>
ValidRows ==
    {pt \in UNION {{<<i, t>> : t \in RowStarts(PagesReceived[i].content)} :
                       i \in 1..Len(PagesReceived)} :
        RowValid(PagesReceived[pt[1]].content, pt[2])}

\* a row with the download id k comes after row pt in the walk
LaterRowWithId(pt, k) ==
    \E i \in 1..Len(PagesReceived) :
        \E t \in RowsWithId(PagesReceived[i].content, k) :
            i > pt[1] \/ (i = pt[1] /\ t > pt[2])

\* the last n tokens of a URL
UrlTail(url, n) == SubSeq(url, Len(url) - n + 1, Len(url))

\* C4: for a listing of N pages the walk issues the listing requests with
\* cursor 1, 2, ... in ascending order and never more than N of them; while
\* fewer than N pages are in, it goes on to the next page whatever the pages
\* held; it raises only when a request got no response; and it returns after
\* exactly N requests a mapping that holds every valid row of every page
\* (under the row's download id, with the row's own data when no later row
\* carries the same id).
C4_WalksNPages ==
    \A N \in 1..9 :
        ListingOf(N) =>
            LET n == Len(PagesReceived)
                reqs == ListingRequests
            IN  /\ n <= N
                /\ Len(reqs) \in {n, n + 1}
                /\ \A k \in 1..Len(reqs) :
                      /\ reqs[k].op = "GET"
                      /\ UrlTail(reqs[k].url, 2) = <<"&p=">> \o str_int(k)
                /\ pc \in {"fetch_page", "returned", "raised"}
                /\ pc = "fetch_page" => (n < N /\ Len(reqs) = n /\ current_page = n + 1)
                /\ pc = "raised" => Len(reqs) = n + 1
                /\ pc = "returned" =>
                      /\ n = N
                      /\ Len(reqs) = N
                      /\ \A pt \in ValidRows :
                            LET soup == PagesReceived[pt[1]].content
                                k == RowId(soup, pt[2])
                            IN  /\ k \in DOMAIN returned.v
                                /\ ~LaterRowWithId(pt, k) =>
                                      returned.v[k] = RowRecord(soup, pt[2])

\* C4 witness: a two-page listing whose first page has a row but no valid
\* one; the walk requested both pages and returned the valid row of page 2.
C4_Witness ==
    /\ pc = "returned"
    /\ ListingOf(2)
    /\ Len(PagesReceived) = 2
    /\ RowStarts(PagesReceived[1].content) # {}
    /\ \A pt \in ValidRows : pt[1] = 2
    /\ ValidRows # {}
    /\ DOMAIN returned.v = {IdB}

(***************************************************************************)
(* Claims about the order and the errors of construction (under Spec).     *)
(***************************************************************************)
LoginOrder ==
    << [op |-> "GET", url |-> main_page], [op |-> "GET", url |-> login_url],
       [op |-> "POST", url |-> login_url], [op |-> "GET", url |-> cumulus_login] >>

\* an error was raised during construction
LoginRaised ==
    \E i \in 1..Len(trace) :
        trace[i].op = "raise" /\ \A c \in 1..Len(trace) :
                                    trace[c].op \in {"call", "call_receipt"} => i < c

\* what puts requests on the wire: a call of session.get or session.post,
\* the adapter's repetitions below it, a redirection the session follows
OnTheWire(ev) == IsRequest(ev) \/ ev.op \in {"retries", "redirect"}

\* C9: the requests the login sequence issues (its calls of session.get and
\* session.post) are a prefix of site-root GET, login-page GET, credential
\* POST, subsystem GET, each at most once; nothing goes on the wire after a
\* raised error; an error raised during construction ends it in failure,
\* and construction ends well only after all four requests.  Below a call
\* the HTTP layer does what the specification gives it to do: the adapter
\* repeats the request of one URL at most RetryTotal times, and the session
\* requests the location a redirection names.
C9_LoginOrder ==
    /\ Len(LoginRequests) <= Len(LoginOrder)
    /\ \A k \in 1..Len(LoginRequests) :
          /\ LoginRequests[k].op = LoginOrder[k].op
          /\ LoginRequests[k].url = LoginOrder[k].url
    /\ \A i \in 1..Len(trace) :
          trace[i].op = "raise" => \A j \in (i + 1)..Len(trace) : ~OnTheWire(trace[j])
    /\ \A i \in 1..Len(trace) :
          /\ trace[i].op = "retries" => trace[i].requests \in 2..(1 + RetryTotal)
          /\ trace[i].op = "redirect" =>
                /\ trace[i].response.status \in RedirectStatus
                /\ trace[i].url = trace[i].response.location
                /\ i > 1 /\ trace[i - 1].op # "raise"
    /\ LoginRaised <=> pc = "failed"
    /\ pc = "failed" => (exc # None /\ Last(trace).op = "raise")
    /\ pc \in {"ready", "fetch_page", "returned", "raised"} => Len(LoginRequests) = 4

\* C9 witness: the credential POST was redirected to the site root, which
\* the session requested below the POST; the subsystem GET came fourth and
\* last, and construction ended well.
C9_Witness ==
    /\ pc = "ready"
    /\ Len(LoginRequests) = 4
    /\ \E i \in 2..(Len(trace) - 1) :
          /\ trace[i].op = "redirect"
          /\ trace[i].url = main_page
          /\ trace[i - 1].op = "POST"
          /\ trace[i + 1].op = "response"

\* C10: whatever fails in one of the three login steps, a transport failure
\* of its request included, reaches the caller of the constructor as an
\* ExceptionMigrosApi, never as the transport exception it was raised as;
\* a failure of credential submission (login-page GET, POST) carries code 1
\* and a failure of the subsystem check code 3.
C10_AlwaysClassified ==
    pc = "failed" =>
        LET n == Len(LoginRequests)
        IN  /\ exc.type = "ExceptionMigrosApi"
            /\ ~IsRequestException(exc)
            /\ n \in {2, 3} => IsApiError(exc, "1")
            /\ n = 4 => IsApiError(exc, "3")

(***************************************************************************)
(* Claims about the failures and the bound of the page walk (under Spec).  *)
(***************************************************************************)
CatalogCodes == {PyStr(str_int(c)) : c \in 1..6}

\* C11: every failure of get_all_receipts that reaches the caller is an
\* ExceptionMigrosApi that carries a code of the catalog and a message.
C11_FailuresAreCatalogErrors ==
    (pc = "raised" /\ CallIdx # {}) =>
        /\ exc.type = "ExceptionMigrosApi"
        /\ exc.code \in CatalogCodes
        /\ Truthy(exc.msg)

\* C14: the number of listing requests of a call that returned equals the
\* page count extracted from its first page, whatever later pages report.
C14_BoundIsFirstPageCount ==
    (pc = "returned" /\ PagesReceived # <<>>) =>
        Len(ListingRequests) = Reports(PagesReceived[1])

\* the positions of the requests of construction in the trace
LoginRequestIdx ==
    {i \in 1..Len(trace) : IsRequest(trace[i]) /\ trace[i].url \in LoginUrls}

\* C13: between every two successive requests of construction a sleep of at
\* least one second occurs.
C13_LoginRequestsPaced ==
    \A i \in LoginRequestIdx : \A j \in LoginRequestIdx :
        (i < j /\ \A k \in LoginRequestIdx : ~(i < k /\ k < j)) =>
            \E m \in (i + 1)..(j - 1) : trace[m].op = "sleep" /\ trace[m].secs >= 1

(***************************************************************************)
(* Claims about the cookie header and about get_receipt (under Spec).      *)
(***************************************************************************)

\* the cookie jar as the responses up to position i of the trace left it
\* (the answers that redirected the session included)
RECURSIVE JarAt(_)
JarAt(i) ==
    IF i = 0 THEN <<>>
    ELSE IF trace[i].op \in {"response", "redirect"}
         THEN jar_update(JarAt(i - 1), trace[i].response)
    ELSE JarAt(i - 1)

\* the positions of the requests that follow the login: the subsystem GET,
\* the listing GETs and the detail GETs
AuthenticatedRequestIdx ==
    {i \in 1..Len(trace) :
        IsRequest(trace[i]) /\ trace[i].url \notin {main_page, login_url}}

\* C12: whenever an authenticated request is issued, the cookie header it is
\* sent with is the serialisation of the cookie jar as it is at that moment
\* (cookie by cookie, or name by name as get_dict lists them).
C12_CookieHeaderFollowsJar ==
    \A i \in AuthenticatedRequestIdx :
        \/ trace[i].cookie = PyStr(join_cookies(JarAt(i - 1)))
        \/ trace[i].cookie = PyStr(join_cookies(get_dict(JarAt(i - 1))))

\* the positions of the calls of get_receipt
ReceiptCallIdx == {i \in 1..Len(trace) : trace[i].op = "call_receipt"}

\* the text of a message names the receipt id
NamesReceipt(msg, receipt_id) ==
    \E i \in 1..Len(msg.v) :
        SubSeq(msg.v, i, i + Len(py_format(receipt_id)) - 1) = py_format(receipt_id)

\* C20: a get_receipt call that fails hands the caller an ExceptionMigrosApi
\* whose message reports the failure for the receipt id of the call.
C20_DetailFailuresAreApiErrors ==
    \A i \in ReceiptCallIdx :
        pc = "raised" =>
            /\ exc.type = "ExceptionMigrosApi"
            /\ Truthy(exc.msg)
            /\ NamesReceipt(exc.msg, trace[i].receipt_id)

(***************************************************************************)
(* Claims about the classification of login failures (under Spec).         *)
(***************************************************************************)

\* the positions of the responses to the credential POST
PostAnswers ==
    {i \in 2..Len(trace) : trace[i].op = "response" /\ trace[CallOf(i)].op = "POST"}

\* C17: a failure of credential submission (token missing, error regions in
\* the POST response, authentication-error URL, transport failure of the
\* login GET or POST) reaches the caller with code 1 and a failure of the
\* subsystem check (marker absent, transport failure of its GET) with code 3;
\* an error raised with code 1 reaches the caller as it was raised.
C17_LoginCodesByStep ==
    pc = "failed" =>
        LET n == Len(LoginRequests)
            raised == Last(trace).exc
        IN  /\ n \in {2, 3} => IsApiError(exc, "1")
            /\ n = 4 => IsApiError(exc, "3")
            /\ IsRequestException(raised) /\ n > 1 => exc.type = "ExceptionMigrosApi"
            /\ IsApiError(raised, "1") => exc = raised
            /\ IsApiError(raised, "3") => (exc = raised /\ n = 4)

\* C17 witness: the POST ended on the authentication-error URL; the caller
\* sees code 1 with the message of that check, not code 3.
C17_Witness ==
    /\ pc = "failed"
    /\ Len(LoginRequests) = 3
    /\ \E i \in PostAnswers :
          \E k \in 1..Len(trace[i].response.url) :
              trace[i].response.url[k] = "Authentication_Error"
    /\ IsApiError(exc, "1")
    /\ exc.msg = PyStr(<<"Authentication failed">>)

(***************************************************************************)
(* Claims about the exception's constructor.  Checked under SpecCatalog.   *)
(***************************************************************************)
\* the catalog number a given code stands for, 0 if none
CatalogNumber(code) ==
    IF code = None THEN 0
    ELSE IF code.ty = "int" THEN (IF code.v \in 1..6 THEN code.v ELSE 0)
    ELSE IF \E c \in 1..6 : code.v = str_int(c)
         THEN CHOOSE c \in 1..6 : code.v = str_int(c)
         ELSE 0

\* C18: for every catalog code c in 1..6 the exception built from the int c
\* and the one built from the string form of c are the same exception: code
\* the string form of c, message the catalog's message of c.  When a message
\* is supplied the exception carries that message whatever the code is
\* (known, unknown, absent, not a number), and no lookup happens.
C18_CodesInterchangeable ==
    pc = "constructed" =>
        /\ (xmessage = None /\ CatalogNumber(xcode) # 0) =>
              xerr = Exc("ExceptionMigrosApi",
                         PyStr(str_int(CatalogNumber(xcode))),
                         CatalogMessages[CatalogNumber(xcode)])
        /\ xmessage # None =>
              (xerr.type = "ExceptionMigrosApi" /\ xerr.msg = xmessage)

\* the int 5 has been given without a message: the exception carries the
\* string "5" and the fifth message of the catalog
C18_Witness ==
    /\ pc = "constructed"
    /\ xcode = PyInt(5)
    /\ xmessage = None
    /\ xerr.code = PyStr(<<"5">>)
    /\ xerr.msg = MsgRange

\* a string that is no number has been given with a custom message: the
\* exception carries the custom message
C18_WitnessCustom ==
    /\ pc = "constructed"
    /\ xcode = PyStr(<<"abc">>)
    /\ xmessage = PyStr(<<"custom text">>)
    /\ xerr.msg = xmessage

(***************************************************************************)
(* Claims about the end of the page walk.  Checked under Spec.             *)
(***************************************************************************)
\* the pages the walk still has to fetch before line 290 lets it go: the
\* page count in force less the pages fetched (the cursor is at the page to
\* fetch next)
PagesLeft == total_pages.v - (current_page - 1)

\* a turn of the loop after the first that goes on to a next page
WalkGoesOn ==
    pc = "fetch_page" /\ total_pages # None /\ pc' = "fetch_page"

\* C19: whatever page count each listing page reports, a get_all_receipts
\* call returns or fails; it does not go on fetching pages forever.  The
\* loop of lines 284-295 is left only at line 290 or by an error.  The
\* property states the variant that makes the walk end: a turn that goes on
\* leaves fewer pages to fetch than there were before it.  (A server that
\* answers one turn so that no fewer pages are left can answer every turn
\* so, and the call then never ends.  A loop whose bound is the page count
\* of the first page has this variant.)
C19_ListingTerminates ==
    [][WalkGoesOn => PagesLeft' < PagesLeft]_vars

(***************************************************************************)
(* Claims about listing responses with an error status.  Checked under     *)
(* Spec.                                                                   *)
(***************************************************************************)
\* the page has neither a receipt checkbox nor a pagination control
NoListingMarkup(r) ==
    find_all(r.content, SelCheckbox) = <<>> /\ find_all(r.content, SelPageAnchor) = <<>>

\* the events the step adds to the trace
NewEvents == SubSeq(trace', Len(trace) + 1, Len(trace'))

\* the step is a turn of the loop, appending to a list, whose request was
\* answered with an error status
ErrorStatusAnswered ==
    /\ pc = "fetch_page"
    /\ response_list.ty = "list"
    /\ \E i \in 1..Len(NewEvents) :
          \/ NewEvents[i].op = "response" /\ NewEvents[i].response.status >= 400
          \/ NewEvents[i].op = "raise" /\ NewEvents[i].exc.type = "RetryError"

\* the step is a turn of the loop, appending to a list, that received a page
\* with an error status
ErrorPageReceived ==
    /\ pc = "fetch_page"
    /\ response_list.ty = "list"
    /\ Len(PagesReceived') = Len(PagesReceived) + 1
    /\ Last(PagesReceived').status >= 400

\* C21 as it is stated: a listing request answered with an HTTP error status
\* does not make get_all_receipts fail; the turn ends the call normally or
\* goes on to the next page.
C21_ErrorStatusNeverFails ==
    [][ErrorStatusAnswered => (pc' \in {"returned", "fetch_page"} /\ exc' = None)]_vars

\* C21, amended: a listing response with an HTTP error status outside the
\* adapter's retry list (403, 404) does not make get_all_receipts fail: the
\* turn that receives it ends the call normally or goes on to the next page,
\* and its rows are stored like those of any page.  When such a response has
\* no listing markup the mapping stays as accumulated so far, the page count
\* is 1, and the call returns that mapping as a normal result.  A listing
\* request answered with a status of the retry list hands no response to the
\* loop: the call fails with the generic listing failure, nothing is
\* appended and the mapping is not returned.
C21_ErrorStatusIsAPage ==
    [][/\ ErrorPageReceived =>
            /\ Last(PagesReceived').status \notin StatusForcelist
            /\ pc' \in {"returned", "fetch_page"}
            /\ exc' = None
            /\ \A i \in 1..Len(find_all(Last(PagesReceived').content, SelCheckbox)) :
                  Last(PagesReceived').content[
                      find_all(Last(PagesReceived').content, SelCheckbox)[i]].value
                          \in DOMAIN final_dict'
            /\ NoListingMarkup(Last(PagesReceived')) =>
                  /\ final_dict' = final_dict
                  /\ total_pages' = PyInt(1)
                  /\ pc' = "returned"
                  /\ returned' = [ty |-> "dict", v |-> final_dict]
       /\ (ErrorStatusAnswered /\ ~ErrorPageReceived) =>
            /\ pc' = "raised"
            /\ exc'.type = "Exception"
            /\ UNCHANGED <<response_list, final_dict, returned>>]_vars

\* page 2 of a walk came back with status 404 and no markup: the call has
\* returned the record of page 1
C21_Witness ==
    /\ pc = "returned"
    /\ Len(PagesReceived) = 2
    /\ PagesReceived[2].status = 404
    /\ NoListingMarkup(PagesReceived[2])
    /\ total_pages = PyInt(1)
    /\ returned = [ty |-> "dict", v |-> final_dict]
    /\ IdA \in DOMAIN final_dict

\* page 1 came back with status 403 and a receipt row: the row is stored
\* and the walk goes on
C21_WitnessRows ==
    /\ pc = "fetch_page"
    /\ Len(PagesReceived) = 1
    /\ PagesReceived[1].status = 403
    /\ IdB \in DOMAIN final_dict
    /\ current_page = 2

\* page 2 of a walk was answered with status 500: the retries were spent and
\* the call has failed with the generic listing failure
C21_WitnessRetries ==
    /\ pc = "raised"
    /\ Len(PagesReceived) = 1
    /\ Last(trace).op = "raise"
    /\ Last(trace).exc.type = "RetryError"
    /\ trace[Len(trace) - 1] = RetriesSpent(1 + RetryTotal, <<2, 4>>)
    /\ exc.type = "Exception"

====
